---- MODULE Spec2Model ----
(***************************************************************************)
(* Model of src/app/(dashboard)/layout.tsx                                 *)
(*                                                                         *)
(*   const DashBoardLayout = ( {children} ) => {                           *)
(*       return <div>                                                      *)
(*           <h1>Dashboard</h1>                                            *)
(*           <div>{children}</div>                                         *)
(*       </div>                                                            *)
(*   }                                                                     *)
(*   export default DashBoardLayout                                        *)
(*                                                                         *)
(* A renderable value is a record with the fields kind, tag, text, items:  *)
(* the JavaScript values undefined and null, a string, an element (its     *)
(* type and the list of its JSX children) and an array of renderable       *)
(* values.  The argument of a call is a record with the fields kind and    *)
(* fields: a props object (kind "object", fields a function from property  *)
(* names to values), or the value undefined or null when the function is   *)
(* called with no props object.  The component is called by several        *)
(* callers; each caller holds the argument it passes and the structure, or *)
(* the error, it gets back.                                                *)
(***************************************************************************)
EXTENDS Naturals, Sequences, FiniteSets

VARIABLES props, output, pc

vars == <<props, output, pc>>

\* ------------------------------------------------------------------ bounds
NumCallers == 2
MaxLen == 2

Callers == 1..NumCallers

\* ------------------------------------------------------- renderable values
Node(k, g, t, i) == [kind |-> k, tag |-> g, text |-> t, items |-> i]

Undefined == Node("undefined", "", "", <<>>)
Null == Node("null", "", "", <<>>)
Text(s) == Node("text", "", s, <<>>)
Elem(g, kids) == Node("elem", g, "", kids)
Arr(s) == Node("array", "", "", s)

\* What a caller holds before the component has returned anything.
NoOutput == Node("none", "", "", <<>>)
\* The outcome of a call that throws instead of returning.
TypeError == Node("error", "", "TypeError", <<>>)

SeqsUpTo(S, n) == UNION {[1..k -> S] : k \in 0..n}

Siblings == {Text("A"), Elem("p", <<Text("B")>>)}

Singles == {Undefined, Null, Text("Hello"), Text("Dashboard"),
            Elem("span", <<Text("A")>>)}

Arrays == {Arr(s) : s \in SeqsUpTo(Siblings, MaxLen)}

Renderables == Singles \cup Arrays

\* ------------------------------------------------------------ props object
OtherValues == {Text("Settings")}

\* Every props object a caller builds: children present or absent, and a
\* second property ("title") present or absent.
PropsObjects ==
    UNION {[D -> Renderables \cup OtherValues] : D \in SUBSET {"children", "title"}}

ValidProps ==
    {p \in PropsObjects :
        /\ ("children" \in DOMAIN p => p["children"] \in Renderables)
        /\ ("title" \in DOMAIN p => p["title"] \in OtherValues)}

EmptyProps == [n \in {} |-> Undefined]

\* ------------------------------------------------------ argument of a call
Obj(f) == [kind |-> "object", fields |-> f]

\* The function called with no argument (or with undefined), and with null.
ArgUndefined == [kind |-> "undefined", fields |-> EmptyProps]
ArgNull == [kind |-> "null", fields |-> EmptyProps]

\* What a caller holds while it is making no call.
NoArg == [kind |-> "none", fields |-> EmptyProps]

Arguments == {Obj(f) : f \in ValidProps} \cup {ArgUndefined, ArgNull}

IsObject(p) == p.kind = "object"

\* The parameter pattern {children}: a TypeError when the argument is
\* undefined or null, else the property's value, undefined when the object
\* has no such property.
Destructure(p, name) ==
    IF ~IsObject(p) THEN TypeError
    ELSE IF name \in DOMAIN p.fields THEN p.fields[name] ELSE Undefined

\* ------------------------------------------------- faulty variants (mutants)
\* The heading placed after the content region.
DashBoardLayoutHeadingLast(p) ==
    IF ~IsObject(p) THEN TypeError ELSE
    LET children == Destructure(p, "children")
    IN  Elem("div", <<Elem("div", <<children>>),
                      Elem("h1", <<Text("Dashboard")>>)>>)

\* The children written twice into the content region.
DashBoardLayoutTwice(p) ==
    IF ~IsObject(p) THEN TypeError ELSE
    LET children == Destructure(p, "children")
    IN  Elem("div", <<Elem("h1", <<Text("Dashboard")>>),
                      Elem("div", <<children, children>>)>>)

\* A property of children read without a check (children.length): a
\* TypeError when children is undefined or null.
DashBoardLayoutStrict(p) ==
    IF ~IsObject(p) THEN TypeError ELSE
    LET children == Destructure(p, "children")
    IN  IF children \in {Undefined, Null}
        THEN TypeError
        ELSE Elem("div", <<Elem("h1", <<Text("Dashboard")>>),
                           Elem("div", <<children>>)>>)

Reverse(s) == [i \in 1..Len(s) |-> s[Len(s) + 1 - i]]

\* An array of children rendered back to front.
DashBoardLayoutReversed(p) ==
    IF ~IsObject(p) THEN TypeError ELSE
    LET children == Destructure(p, "children")
        shown == IF children.kind = "array"
                 THEN Arr(Reverse(children.items)) ELSE children
    IN  Elem("div", <<Elem("h1", <<Text("Dashboard")>>),
                      Elem("div", <<shown>>)>>)

\* The content region rendered only when there are children
\* ({children && <div>{children}</div>}).
DashBoardLayoutConditional(p) ==
    IF ~IsObject(p) THEN TypeError ELSE
    LET children == Destructure(p, "children")
    IN  IF children \in {Undefined, Null}
        THEN Elem("div", <<Elem("h1", <<Text("Dashboard")>>), children>>)
        ELSE Elem("div", <<Elem("h1", <<Text("Dashboard")>>),
                           Elem("div", <<children>>)>>)

\* The heading wrapped in a header element of its own.
DashBoardLayoutHeader(p) ==
    IF ~IsObject(p) THEN TypeError ELSE
    LET children == Destructure(p, "children")
    IN  Elem("div", <<Elem("header", <<Elem("h1", <<Text("Dashboard")>>)>>),
                      Elem("div", <<children>>)>>)

\* A module-level render counter shown in the heading: the result depends on
\* how many renders are held by callers at the time of the call.
DashBoardLayoutCounting(p) ==
    IF ~IsObject(p) THEN TypeError ELSE
    LET children == Destructure(p, "children")
        held == Cardinality({c \in Callers : pc[c] = "returned"})
    IN  Elem("div", <<Elem("h1", <<Text(IF held = 0 THEN "Dashboard" ELSE "Dashboard again")>>),
                      Elem("div", <<children>>)>>)

\* The heading taken from a title property when there is one.
DashBoardLayoutTitled(p) ==
    IF ~IsObject(p) THEN TypeError ELSE
    LET children == Destructure(p, "children")
        title == Destructure(p, "title")
    IN  Elem("div", <<Elem("h1", <<IF title = Undefined THEN Text("Dashboard") ELSE title>>),
                      Elem("div", <<children>>)>>)

\* ------------------------------------------------------------ the component
\* Binding the parameter throws when there is no props object; otherwise the
\* body returns the fixed structure around children.
DashBoardLayout(p) ==
    IF ~IsObject(p) THEN TypeError ELSE
    LET children == Destructure(p, "children")
    IN  Elem("div", <<Elem("h1", <<Text("Dashboard")>>),
                      Elem("div", <<children>>)>>)

\* ---------------------------------------------------- rendering a structure
Tok(t, v) == [t |-> t, v |-> v]

RECURSIVE Render(_)
RECURSIVE RenderAll(_)

\* The document-order output of a structure: undefined and null render
\* nothing, a string renders as a text, an element as its tags around its
\* children's output, an array as its items' output in order.
Render(n) ==
    CASE n.kind = "text" -> <<Tok("text", n.text)>>
      [] n.kind = "elem" ->
            <<Tok("open", n.tag)>> \o RenderAll(n.items) \o <<Tok("close", n.tag)>>
      [] n.kind = "array" -> RenderAll(n.items)
      [] OTHER -> <<>>

RenderAll(s) == IF s = <<>> THEN <<>> ELSE Render(Head(s)) \o RenderAll(Tail(s))

\* ----------------------------------------------------------------- actions
Init ==
    /\ props = [c \in Callers |-> NoArg]
    /\ output = [c \in Callers |-> NoOutput]
    /\ pc = [c \in Callers |-> "idle"]

\* A caller calls the component: with a props object it built, or with none.
Invoke(c, p) ==
    /\ pc[c] = "idle"
    /\ props' = [props EXCEPT ![c] = p]
    /\ pc' = [pc EXCEPT ![c] = "called"]
    /\ UNCHANGED output

\* Faulty variant: the body reverses the children array in place.
RunMutating(c) ==
    /\ pc[c] = "called"
    /\ LET r == DashBoardLayout(props[c])
           given == Destructure(props[c], "children")
       IN  /\ output' = [output EXCEPT ![c] = r]
           /\ pc' = [pc EXCEPT ![c] = IF r.kind = "error" THEN "threw" ELSE "returned"]
           /\ props' = IF given.kind = "array"
                       THEN [props EXCEPT ![c].fields["children"] = Arr(Reverse(given.items))]
                       ELSE props

\* Faulty variant: an async component, whose call returns a pending promise.
RunSuspending(c) ==
    /\ pc[c] = "called"
    /\ output' = [output EXCEPT ![c] = Node("promise", "", "", <<>>)]
    /\ pc' = [pc EXCEPT ![c] = "pending"]
    /\ UNCHANGED props

\* The component runs: one step from the call to the return, or to the
\* TypeError thrown while the parameter is bound.
Run(c) ==
    /\ pc[c] = "called"
    /\ LET r == DashBoardLayout(props[c])
       IN  /\ output' = [output EXCEPT ![c] = r]
           /\ pc' = [pc EXCEPT ![c] = IF r.kind = "error" THEN "threw" ELSE "returned"]
    /\ UNCHANGED props

\* The caller is done with the returned structure, or has caught the error,
\* and may call again.
Release(c) ==
    /\ pc[c] \in {"returned", "threw"}
    /\ props' = [props EXCEPT ![c] = NoArg]
    /\ output' = [output EXCEPT ![c] = NoOutput]
    /\ pc' = [pc EXCEPT ![c] = "idle"]

Next ==
    \/ \E c \in Callers, p \in Arguments : Invoke(c, p)
    \/ \E c \in Callers : Run(c)
    \/ \E c \in Callers : Release(c)

Spec == Init /\ [][Next]_vars

\* ------------------------------------------------------------------ claims
Returned(c) == pc[c] = "returned"

\* The children value caller c passed.
Given(c) == Destructure(props[c], "children")

Heading == Elem("h1", <<Text("Dashboard")>>)

FramePrefix ==
    <<Tok("open", "div"), Tok("open", "h1"), Tok("text", "Dashboard"),
      Tok("close", "h1"), Tok("open", "div")>>

FrameSuffix == <<Tok("close", "div"), Tok("close", "div")>>

IsEmptyValue(v) == v \in {Undefined, Null, Arr(<<>>)}

\* C1: for every renderable value V, the rendered output of the returned
\* structure contains the heading text "Dashboard" (inside its h1) and, after
\* the heading in document order, the rendering of V unchanged.
C1_HeadingThenChildren ==
    \A c \in Callers : Returned(c) =>
        LET out == Render(output[c])
            v == Render(Given(c))
        IN  \E i \in 2..(Len(out) - 1) :
                /\ out[i - 1] = Tok("open", "h1")
                /\ out[i] = Tok("text", "Dashboard")
                /\ out[i + 1] = Tok("close", "h1")
                /\ \E j \in (i + 1)..(Len(out) - Len(v)) :
                       SubSeq(out, j + 1, j + Len(v)) = v

C1_Witness ==
    \E c \in Callers :
        /\ Returned(c)
        /\ Given(c) = Text("Hello")
        /\ Render(output[c]) = FramePrefix \o <<Tok("text", "Hello")>> \o FrameSuffix

\* C2: the content region holds exactly V, once, unchanged (for an array,
\* every item once and in place), and the output around the content region
\* is the fixed frame, so V is nowhere else.
C2_ChildrenExactlyOnce ==
    \A c \in Callers : Returned(c) =>
        /\ Len(output[c].items) = 2
        /\ output[c].items[2].items = <<Given(c)>>
        /\ Render(output[c].items[2]) =
               <<Tok("open", "div")>> \o Render(Given(c)) \o <<Tok("close", "div")>>
        /\ Render(output[c]) = FramePrefix \o Render(Given(c)) \o FrameSuffix

C2_Witness ==
    \E c \in Callers :
        /\ Returned(c)
        /\ Given(c) = Elem("span", <<Text("A")>>)
        /\ output[c].items[2].items = <<Elem("span", <<Text("A")>>)>>

\* C3: no render call throws or fails: for every children value, also when
\* the props object has no children property, a call given a props object
\* never ends in an error outcome, and once finished it holds a returned
\* element.  (The input of the render call is the children value, carried by
\* the props object the caller builds; a call with no props object at all
\* is not a render call.)
C3_RenderNeverThrows ==
    \A c \in Callers :
        IsObject(props[c]) =>
            /\ pc[c] # "threw"
            /\ output[c].kind # "error"
            /\ (pc[c] \notin {"idle", "called"} =>
                   pc[c] = "returned" /\ output[c].kind = "elem")

C3_Witness ==
    \E c \in Callers :
        /\ Returned(c)
        /\ IsObject(props[c])
        /\ "children" \notin DOMAIN props[c].fields
        /\ output[c].kind = "elem"
        /\ \E d \in Callers : Returned(d) /\ Given(d) = Null

\* C4: when children is an array of several siblings, every sibling is in
\* the content region, at the position it had in the input.
C4_SiblingsInOrder ==
    \A c \in Callers :
        (Returned(c) /\ Given(c).kind = "array" /\ Len(Given(c).items) >= 2) =>
            /\ Len(output[c].items) = 2
            /\ Len(output[c].items[2].items) = 1
            /\ LET shown == output[c].items[2].items[1]
               IN  /\ shown.kind = "array"
                   /\ Len(shown.items) = Len(Given(c).items)
                   /\ \A i \in 1..Len(shown.items) : shown.items[i] = Given(c).items[i]
            /\ Render(output[c].items[2]) =
                   <<Tok("open", "div")>> \o RenderAll(Given(c).items) \o <<Tok("close", "div")>>

C4_Witness ==
    \E c \in Callers :
        /\ Returned(c)
        /\ Given(c) = Arr(<<Text("A"), Elem("p", <<Text("B")>>)>>)
        /\ Render(output[c].items[2]) =
               <<Tok("open", "div"), Tok("text", "A"), Tok("open", "p"),
                 Tok("text", "B"), Tok("close", "p"), Tok("close", "div")>>

\* C5: with children empty or absent the output is the heading "Dashboard"
\* followed by a content region that is present and empty.
C5_EmptyChildren ==
    \A c \in Callers :
        (Returned(c) /\ IsEmptyValue(Given(c))) =>
            /\ Render(output[c]) = FramePrefix \o FrameSuffix
            /\ Len(output[c].items) = 2
            /\ output[c].items[2].kind = "elem"
            /\ Render(output[c].items[2]) = <<Tok("open", "div"), Tok("close", "div")>>

C5_Witness ==
    /\ \E c \in Callers :
           Returned(c) /\ "children" \notin DOMAIN props[c].fields
                       /\ Render(output[c]) = FramePrefix \o FrameSuffix
    /\ \E c \in Callers :
           Returned(c) /\ "children" \in DOMAIN props[c].fields /\ Given(c) = Null

\* C6: a render step changes nothing but the calling caller's result: the
\* props objects (and so every children value) are the same after the call
\* as before it, and no other caller's state changes.
C6_NoSideEffect ==
    [][\A c \in Callers :
          (pc[c] = "called" /\ pc'[c] # "called") =>
              /\ props' = props
              /\ \A d \in Callers \ {c} : output'[d] = output[d] /\ pc'[d] = pc[d]]_vars

C6_Witness ==
    \E c \in Callers :
        /\ Returned(c)
        /\ props[c] = Obj([n \in {"children"} |-> Arr(<<Text("A"), Elem("p", <<Text("B")>>)>>)])
        /\ \E d \in Callers \ {c} : pc[d] = "called"

\* C7: every returned structure has the same shape: an outer div holding
\* exactly the heading h1 with the text "Dashboard" and then an inner div
\* holding the children value.
C7_FixedShape ==
    \A c \in Callers : Returned(c) =>
        /\ output[c].kind = "elem" /\ output[c].tag = "div"
        /\ Len(output[c].items) = 2
        /\ output[c].items[1] = Heading
        /\ output[c].items[2].kind = "elem" /\ output[c].items[2].tag = "div"
        /\ Len(output[c].items[2].items) = 1
        /\ output[c].items[2].items[1] = Given(c)

C7_Witness ==
    \E c, d \in Callers :
        /\ Returned(c) /\ Returned(d)
        /\ Given(c) # Given(d)
        /\ output[c].items[1] = output[d].items[1]
        /\ output[c].items[2] # output[d].items[2]

\* C8: a call completes in one step: the step that leaves "called" ends the
\* call, and for a render (a call given a props object) it ends at
\* "returned" with the structure for the caller's own children, whatever
\* the other callers are doing; no caller is ever in a pending state.
C8_SingleStep ==
    /\ [](\A c \in Callers : pc[c] \in {"idle", "called", "returned", "threw"})
    /\ [][\A c \in Callers :
            (pc[c] = "called" /\ pc'[c] # "called") =>
                /\ pc'[c] \in {"returned", "threw"}
                /\ (IsObject(props[c]) =>
                       /\ pc'[c] = "returned"
                       /\ Render(output'[c]) =
                              FramePrefix \o Render(Given(c)) \o FrameSuffix)]_vars

C8_Witness ==
    \E c, d \in Callers :
        /\ c # d
        /\ Returned(c) /\ pc[d] = "called"
        /\ Given(c) = Text("Hello") /\ Given(d) = Text("Dashboard")
        /\ Render(output[c]) = FramePrefix \o <<Tok("text", "Hello")>> \o FrameSuffix

\* C9: two calls given equal children values return equal structures,
\* whatever other calls were made before or between them.
C9_Deterministic ==
    \A c, d \in Callers :
        (Returned(c) /\ Returned(d) /\ Given(c) = Given(d)) => output[c] = output[d]

C9_Witness ==
    \E c, d \in Callers :
        /\ c # d
        /\ Returned(c) /\ Returned(d)
        /\ Given(c) = Text("Hello") /\ Given(d) = Text("Hello")
        /\ output[c] = output[d]

\* C10: props objects that agree on children and differ in another property
\* give equal output, and the heading is "Dashboard" whatever the children.
C10_ChildrenOnly ==
    /\ \A c, d \in Callers :
           (Returned(c) /\ Returned(d) /\ Given(c) = Given(d) /\ props[c] # props[d])
               => Render(output[c]) = Render(output[d])
    /\ \A c \in Callers : Returned(c) =>
           /\ Len(output[c].items) >= 1
           /\ Render(output[c].items[1]) =
                  <<Tok("open", "h1"), Tok("text", "Dashboard"), Tok("close", "h1")>>

C10_Witness ==
    \E c, d \in Callers :
        /\ Returned(c) /\ Returned(d)
        /\ "title" \in DOMAIN props[c].fields /\ "title" \notin DOMAIN props[d].fields
        /\ Given(c) = Text("Hello") /\ Given(d) = Text("Hello")
        /\ output[c].items[1] = Heading

====
